---- MODULE Spec2Model ----
(***************************************************************************)
(* A model of abc-product (src/src/lib.rs): the two extractors of the ABC  *)
(* database export (item.data, item_posted.data), their reconciliation in  *)
(* AbcProduct::from_db_export, and AbcProductBuilder.                      *)
(*                                                                         *)
(* Strings are sequences of character codes (a Rust char is its code       *)
(* point), Option<T> is a sequence of length at most one, Result<T, E> is  *)
(* a record [ok, val, err].                                                *)
(***************************************************************************)
EXTENDS Integers, Sequences, FiniteSets, TLC

\* ------------------------------------------------------------------ bounds

\* Rows read from one export file.
MaxRows == 2
\* Comma-separated runs in a generated barcode field.
MaxRuns == 2
\* Digits in a generated barcode run.
MaxRunLen == 14
\* Elements of a Vec handed to or grown by a builder setter.
MaxVec == 2
\* Largest character code handed to with_group.
MaxChar == 127

\* ------------------------------------------------- characters and strings

\* The character codes the source names or the sample data uses.
Ch == [zero |-> 48, nine |-> 57, dot |-> 46, comma |-> 44, minus |-> 45,
       plus |-> 43, A |-> 65, Z |-> 90, a |-> 97, z |-> 122,
       e |-> 101, E |-> 69, space |-> 32, dollar |-> 36, x |-> 120]

\* char::is_digit(10)
IsDigit(c) == c >= Ch.zero /\ c <= Ch.nine

\* None / Some(x) / is_some / unwrap
None == <<>>
Some(x) == <<x>>
IsSome(o) == Len(o) = 1
Unwrap(o) == o[1]

\* Ok(v) / Err(e)
Ok(v) == [ok |-> TRUE, val |-> <<v>>, err |-> <<>>]
Err(e) == [ok |-> FALSE, val |-> <<>>, err |-> <<e>>]

\* The decimal value of a string of digits.
RECURSIVE DigitsVal(_)
DigitsVal(s) ==
    IF s = <<>> THEN 0
    ELSE 10 * DigitsVal(SubSeq(s, 1, Len(s) - 1)) + (s[Len(s)] - Ch.zero)

\* The number of characters of s equal to c.
Count(s, c) == Cardinality({k \in 1..Len(s) : s[k] = c})

\* The index of the first character of s that is in set cs, 0 when there is none.
FirstIndex(s, cs) ==
    IF \E k \in 1..Len(s) : s[k] \in cs
    THEN CHOOSE k \in 1..Len(s) : s[k] \in cs /\ \A j \in 1..(k - 1) : s[j] \notin cs
    ELSE 0

\* str::split(sep): the pieces between separators, empty pieces kept.
RECURSIVE Split(_, _)
Split(s, sep) ==
    LET k == FirstIndex(s, {sep})
    IN  IF k = 0 THEN <<s>>
        ELSE <<SubSeq(s, 1, k - 1)>> \o Split(SubSeq(s, k + 1, Len(s)), sep)

\* ------------------------------------------------------ AbcParseError

CsvError == [kind |-> "CsvError", text |-> "", row |-> None, sku |-> None]
MissingField(field, row) ==
    [kind |-> "MissingField", text |-> field, row |-> Some(row), sku |-> None]
MisMatchedSkus == [kind |-> "MisMatchedSkus", text |-> "", row |-> None, sku |-> None]
\* Custom(format!(text, ..)): the message, and the row or sku formatted into it.
Custom(text, row, sku) == [kind |-> "Custom", text |-> text, row |-> row, sku |-> sku]

\* ------------------------------------------------------ value parsers

\* <Decimal as FromStr>::from_str on a string of digits and points.
DecimalFromStr(t) ==
    LET dots == Count(t, Ch.dot)
        digits == SelectSeq(t, IsDigit)
        p == FirstIndex(t, {Ch.dot})
    IN  IF Len(t) = 0 \/ dots > 1 \/ Len(digits) = 0
        THEN Err("rust_decimal::Error")
        ELSE Ok([m |-> DigitsVal(digits),
                 scale |-> IF p = 0 THEN 0 ELSE Len(t) - p])

\* |c| c.is_digit(10) || c == &'.'
IsPriceChar_Mutant(c) == IsDigit(c)
IsPriceChar(c) == IsDigit(c) \/ c = Ch.dot

price_from_str(price_str) == DecimalFromStr(SelectSeq(price_str, IsPriceChar))

\* m * 10^e with the trailing zeros of m moved into e.
RECURSIVE Normal(_, _)
Normal(m, e) ==
    IF m = 0 THEN [m |-> 0, e |-> 0]
    ELSE IF m % 10 = 0 THEN Normal(m \div 10, e + 1)
    ELSE [m |-> m, e |-> e]

\* An f64: a finite number neg * m * 10^e, an infinity or a NaN.
F64(cls, neg, m, e) ==
    LET n == Normal(m, e)
    IN  [cls |-> cls, neg |-> neg /\ (cls # "num" \/ n.m # 0), m |-> n.m, e |-> n.e]

\* ASCII lower case of one character.
Lower(c) == IF c >= Ch.A /\ c <= Ch.Z THEN c + 32 ELSE c
LowerStr(s) == [k \in 1..Len(s) |-> Lower(s[k])]

\* <f64 as FromStr>::from_str: [sign] (inf | infinity | nan | digits [. digits] [exp]).
ParseF64(s) ==
    LET signed == Len(s) > 0 /\ s[1] \in {Ch.plus, Ch.minus}
        neg == signed /\ s[1] = Ch.minus
        body == IF signed THEN SubSeq(s, 2, Len(s)) ELSE s
        low == LowerStr(body)
        ePos == FirstIndex(body, {Ch.e, Ch.E})
        mant == IF ePos = 0 THEN body ELSE SubSeq(body, 1, ePos - 1)
        expo == IF ePos = 0 THEN <<>> ELSE SubSeq(body, ePos + 1, Len(body))
        expSigned == Len(expo) > 0 /\ expo[1] \in {Ch.plus, Ch.minus}
        expDigits == IF expSigned THEN SubSeq(expo, 2, Len(expo)) ELSE expo
        expOk == ePos = 0
                 \/ (Len(expDigits) > 0 /\ \A k \in 1..Len(expDigits) : IsDigit(expDigits[k]))
        expVal == IF ePos = 0 THEN 0
                  ELSE IF expSigned /\ expo[1] = Ch.minus THEN 0 - DigitsVal(expDigits)
                  ELSE DigitsVal(expDigits)
        digits == SelectSeq(mant, IsDigit)
        p == FirstIndex(mant, {Ch.dot})
        mantOk == /\ \A k \in 1..Len(mant) : IsDigit(mant[k]) \/ mant[k] = Ch.dot
                  /\ Count(mant, Ch.dot) <= 1
                  /\ Len(digits) > 0
    IN  IF low = <<105, 110, 102>> \/ low = <<105, 110, 102, 105, 110, 105, 116, 121>>
        THEN Ok(F64("inf", neg, 0, 0))
        ELSE IF low = <<110, 97, 110>>
        THEN Ok(F64("nan", neg, 0, 0))
        ELSE IF mantOk /\ expOk
        THEN Ok(F64("num", neg, DigitsVal(digits),
                    expVal - (IF p = 0 THEN 0 ELSE Len(mant) - p)))
        ELSE Err("ParseFloatError")

\* The days of month m of year y.
DaysIn(y, m) ==
    IF m \in {4, 6, 9, 11} THEN 30
    ELSE IF m = 2
    THEN (IF (y % 4 = 0 /\ y % 100 # 0) \/ y % 400 = 0 THEN 29 ELSE 28)
    ELSE 31

\* NaiveDate::parse_from_str(s, "%Y-%m-%d"): three numbers joined by '-', the month
\* and the day of at most two digits, naming a day of the calendar.
ParseDate(s) ==
    LET parts == Split(s, Ch.minus)
        numeric(t) == Len(t) > 0 /\ \A k \in 1..Len(t) : IsDigit(t[k])
    IN  IF /\ Len(parts) = 3
           /\ \A k \in 1..3 : numeric(parts[k])
           /\ Len(parts[2]) <= 2 /\ Len(parts[3]) <= 2
           /\ DigitsVal(parts[2]) \in 1..12
           /\ DigitsVal(parts[3]) \in 1..DaysIn(DigitsVal(parts[1]), DigitsVal(parts[2]))
        THEN Ok([y |-> DigitsVal(parts[1]), m |-> DigitsVal(parts[2]),
                 d |-> DigitsVal(parts[3])])
        ELSE Err("chrono::ParseError")

\* ------------------------------------------------------ barcodes

\* The EAN-13 check digit of twelve digits: weights 1, 3, 1, 3, ...
CheckDigit(d12) ==
    LET w(k) == IF k % 2 = 1 THEN 1 ELSE 3
        RECURSIVE sum(_)
        sum(k) == IF k = 0 THEN 0 ELSE sum(k - 1) + w(k) * (d12[k] - Ch.zero)
    IN  (10 - (sum(12) % 10)) % 10

\* A well-formed Ean13: thirteen digits, the last the check digit of the others.
ValidEan13(code) ==
    /\ Len(code) = 13
    /\ \A k \in 1..13 : IsDigit(code[k])
    /\ code[13] = Ch.zero + CheckDigit(SubSeq(code, 1, 12))

\* Ean13::from_str_nonstrict: a digit string of a checksum-bearing length (twelve
\* digits, or thirteen; eleven are taken as twelve without their check digit),
\* padded with leading zeros, its check digit recomputed.
Ean13FromStrNonstrict(s) ==
    IF Len(s) \in {11, 12, 13} /\ \A k \in 1..Len(s) : IsDigit(s[k])
    THEN LET body == IF Len(s) = 13 THEN SubSeq(s, 1, 12)
                     ELSE <<Ch.zero>> \o SubSeq(s, 1, 11)
         IN  Ok(body \o <<Ch.zero + CheckDigit(body)>>)
    ELSE Err("Ean13Error")

\* The closure of filter_map at lines 554-565: what one run contributes.
UpcOfRun_Mutant(s) ==
    IF Len(s) < 12 THEN None
    ELSE Ean13FromStrNonstrict(s).val
UpcOfRun(s) ==
    IF Len(s) = 11 THEN Ean13FromStrNonstrict(s \o <<Ch.zero>>).val
    ELSE IF Len(s) < 11 THEN None
    ELSE Ean13FromStrNonstrict(s).val

\* Iterator::filter_map(f).collect(): opts holds what the closure returned for each
\* element in order, and the Some values are kept.
RECURSIVE FilterMap(_)
FilterMap(opts) ==
    IF opts = <<>> THEN <<>>
    ELSE Head(opts) \o FilterMap(Tail(opts))

\* |c| c.is_digit(10) || *c == ','
IsUpcChar(c) == IsDigit(c) \/ c = Ch.comma

\* The upcs of a row from the text of its barcode column.
ParseUpcs(raw) ==
    LET upc_str == SelectSeq(raw, IsUpcChar)
        runs == Split(upc_str, Ch.comma)
    IN  FilterMap([k \in 1..Len(runs) |-> UpcOfRun(runs[k])])

\* ------------------------------------------------------ rows

\* The columns parse_item_data reads of item.data.
ItemCol == [sku |-> 0, desc |-> 1, list |-> 6, cost |-> 8, group |-> 18,
            alt1 |-> 40, alt2 |-> 41, alt3 |-> 42, upcs |-> 43, weight |-> 45]
\* The columns parse_item_posted_data reads of item_posted.data.
PostedCol == [sku |-> 0, last_sold |-> 1, stock |-> 19]

\* StringRecord::get(c) on a row of row.n fields.
Get_Mutant(row, c) == IF c + 1 < row.n THEN Some(row.f[c]) ELSE None
Get(row, c) == IF c < row.n THEN Some(row.f[c]) ELSE None

\* The body of the loop of parse_item_data for row number i: the record to insert, or
\* the error returned.
ParseItemRow(row, i) ==
    LET sku == Get(row, ItemCol.sku)
        desc == Get(row, ItemCol.desc)
        upcs == Get(row, ItemCol.upcs)
        list == Get(row, ItemCol.list)
        cost == Get(row, ItemCol.cost)
        weight_str == Get(row, ItemCol.weight)
        group == Get(row, ItemCol.group)
        alts == <<Get(row, ItemCol.alt1), Get(row, ItemCol.alt2), Get(row, ItemCol.alt3)>>
        keep(o) == IF IsSome(o) /\ Unwrap(o) # <<>> THEN o ELSE None
    IN  IF ~IsSome(sku) THEN Err(MissingField("sku", i))
        ELSE IF ~IsSome(desc) THEN Err(MissingField("desc", i))
        ELSE IF ~IsSome(upcs) THEN Err(MissingField("upcs", i))
        ELSE IF ~IsSome(list) THEN Err(MissingField("list", i))
        ELSE IF ~price_from_str(Unwrap(list)).ok
        THEN Err(Custom("Cannot parse a price for list in row {}", Some(i), None))
        ELSE IF ~IsSome(cost) THEN Err(MissingField("cost", i))
        ELSE IF ~price_from_str(Unwrap(cost)).ok
        THEN Err(Custom("Cannot parse a price for cost in row {}", Some(i), None))
        ELSE IF ~IsSome(weight_str) THEN Err(MissingField("weight", i))
        ELSE Ok([sku |-> Unwrap(sku),
                 desc |-> Unwrap(desc),
                 upcs |-> ParseUpcs(Unwrap(upcs)),
                 list |-> Unwrap(price_from_str(Unwrap(list)).val),
                 cost |-> Unwrap(price_from_str(Unwrap(cost)).val),
                 weight |-> ParseF64(Unwrap(weight_str)).val,
                 group |-> keep(group),
                 alt_skus |-> FilterMap([k \in 1..Len(alts) |-> keep(alts[k])])])

\* The body of the loop of parse_item_posted_data for row number i.
ParsePostedRow(row, i) ==
    LET sku == Get(row, PostedCol.sku)
        stock_str == Get(row, PostedCol.stock)
        last_sold_str == Get(row, PostedCol.last_sold)
    IN  IF ~IsSome(sku) THEN Err(MissingField("sku", i))
        ELSE IF ~IsSome(stock_str) THEN Err(MissingField("stock", i))
        ELSE IF ~ParseF64(Unwrap(stock_str)).ok
        THEN Err(Custom("Cannot parse f64 from stock_str in row {} of posted items",
                        Some(i), None))
        ELSE IF ~IsSome(last_sold_str) THEN Err(MissingField("last_sold", i))
        ELSE Ok([sku |-> Unwrap(sku),
                 stock |-> Unwrap(ParseF64(Unwrap(stock_str)).val),
                 last_sold |-> ParseDate(Unwrap(last_sold_str)).val])

\* Reader::records().next() of a reader built without flexible(true): a record whose
\* number of fields differs from the first record's is an error.
ReadRecord(earlier, row) ==
    IF earlier # <<>> /\ row.n # earlier[1].n THEN Err(CsvError) ELSE Ok(row)

\* HashMap::insert
Insert_Mutant(map, key, value) ==
    [k \in DOMAIN map \cup {key} |-> IF k \in DOMAIN map THEN map[k] ELSE value]
Insert(map, key, value) ==
    [k \in DOMAIN map \cup {key} |-> IF k = key THEN value ELSE map[k]]
EmptyMap == [k \in {} |-> None]

\* ------------------------------------------------------ sample export data

\* "123456", "ABC123", "X9"
Sku1 == <<49, 50, 51, 52, 53, 54>>
Sku2 == <<65, 66, 67, 49, 50, 51>>
Sku3 == <<88, 57>>
Skus == {Sku1, Sku2, Sku3}

\* A row of item.data of n fields: the fields parse_item_data reads, from a profile.
MkItemRow(n, sku, p) ==
    LET all == (ItemCol.sku :> sku) @@ (ItemCol.desc :> p.desc) @@ (ItemCol.list :> p.list)
               @@ (ItemCol.cost :> p.cost) @@ (ItemCol.group :> p.group)
               @@ (ItemCol.alt1 :> p.alts[1]) @@ (ItemCol.alt2 :> p.alts[2])
               @@ (ItemCol.alt3 :> p.alts[3]) @@ (ItemCol.upcs :> p.upcs)
               @@ (ItemCol.weight :> p.weight)
    IN  [n |-> n, f |-> [c \in DOMAIN all |-> IF c < n THEN all[c] ELSE <<>>]]

\* "PRODUCT A", barcode "85875500014", list "5.99", cost "1.23", no weight, no group,
\* alternate "ALT".
ItemA == [desc |-> <<80, 82, 79, 68, 85, 67, 84, 32, 65>>,
          upcs |-> <<56, 53, 56, 55, 53, 53, 48, 48, 48, 49, 52>>,
          list |-> <<53, 46, 57, 57>>, cost |-> <<49, 46, 50, 51>>,
          weight |-> <<>>, group |-> <<>>, alts |-> <<<<65, 76, 84>>, <<>>, <<>>>>]
\* "PRODUCT B", no barcode, list "$8.12", cost "5.23", weight "1.5", group "A",
\* alternate "ALT SKU" in the second alternate column.
ItemB == [desc |-> <<80, 82, 79, 68, 85, 67, 84, 32, 66>>,
          upcs |-> <<>>,
          list |-> <<36, 56, 46, 49, 50>>, cost |-> <<53, 46, 50, 51>>,
          weight |-> <<49, 46, 53>>, group |-> <<65>>,
          alts |-> <<<<>>, <<65, 76, 84, 32, 83, 75, 85>>, <<>>>>]
\* "PRODUCT A" with unusable soft fields: barcode "858x,12", weight "x".
ItemC == [ItemA EXCEPT !.upcs = <<56, 53, 56, 120, 44, 49, 50>>, !.weight = <<120>>,
                       !.alts = <<<<>>, <<>>, <<>>>>]
\* "PRODUCT B" with the text "ab" in the group column.
ItemD == [ItemB EXCEPT !.group = <<97, 98>>]
\* Unparseable prices: list "x", cost "1.2.3".
ItemBadList == [ItemA EXCEPT !.list = <<120>>]
ItemBadCost == [ItemA EXCEPT !.cost = <<49, 46, 50, 46, 51>>]

\* The number of fields of a full row of item.data, and of rows cut short.
ItemWidth == ItemCol.weight + 1
ShortItemWidths == {ItemCol.desc, ItemCol.upcs, ItemCol.weight}

ItemRows ==
    {MkItemRow(ItemWidth, sku, p) : sku \in Skus, p \in {ItemA, ItemB}}
    \cup {MkItemRow(ItemWidth, Sku3, p) : p \in {ItemC, ItemD}}
    \cup {MkItemRow(ItemWidth, Sku1, p) : p \in {ItemBadList, ItemBadCost}}
    \cup {MkItemRow(n, Sku1, ItemA) : n \in ShortItemWidths}

\* A row of item_posted.data of n fields.
MkPostedRow(n, sku, p) ==
    LET all == (PostedCol.sku :> sku) @@ (PostedCol.last_sold :> p.last_sold)
               @@ (PostedCol.stock :> p.stock)
    IN  [n |-> n, f |-> [c \in DOMAIN all |-> IF c < n THEN all[c] ELSE <<>>]]

\* stock "0.00" last sold "2024-11-16"; stock "-6.0" last sold "0000-00-00"; stock "x".
PostedA == [stock |-> <<48, 46, 48, 48>>,
            last_sold |-> <<50, 48, 50, 52, 45, 49, 49, 45, 49, 54>>]
PostedB == [stock |-> <<45, 54, 46, 48>>,
            last_sold |-> <<48, 48, 48, 48, 45, 48, 48, 45, 48, 48>>]
PostedBadStock == [PostedA EXCEPT !.stock = <<120>>]

PostedWidth == PostedCol.stock + 1
ShortPostedWidths == {PostedCol.stock}

PostedRows ==
    {MkPostedRow(PostedWidth, sku, p) : sku \in Skus, p \in {PostedA, PostedB}}
    \cup {MkPostedRow(PostedWidth, Sku1, PostedBadStock)}
    \cup {MkPostedRow(n, Sku1, PostedA) : n \in ShortPostedWidths}

\* ------------------------------------------------------ state

VARIABLES
    pc,               \* where from_db_export stands
    item_rows,        \* the records the reader of item.data has yielded
    posted_rows,      \* the records the reader of item_posted.data has yielded
    i,                \* the row counter of the running extractor
    parsing,          \* the map `products` of the running extractor
    base_products,    \* from_db_export's binding, once parse_item_data has returned
    posted_products,  \* likewise for parse_item_posted_data
    todo,             \* the keys the for loop of from_db_export has not visited
    looked,           \* the keys looked up in posted_products
    products,         \* the map `products` of from_db_export
    result,           \* what from_db_export returned
    builder,          \* the AbcProductBuilder in hand, if any
    set5,             \* the fields given to the builder in hand, by a setter or by From
    consumed,         \* the builder the last build() consumed
    outcome,          \* what the last build() returned
    seed,             \* the AbcProduct the builder in hand was made from, untouched since
    upc_runs,         \* the runs a barcode field was written from
    upc_out,          \* the upcs parsed from that field
    price_in,         \* a price as text
    price_out         \* what price_from_str returned for it

exportVars == <<pc, item_rows, posted_rows, i, parsing, base_products, posted_products,
                todo, looked, products, result>>
builderVars == <<builder, set5, consumed, outcome, seed>>
upcVars == <<upc_runs, upc_out>>
priceVars == <<price_in, price_out>>
vars == <<exportVars, builderVars, upcVars, priceVars>>

ExportIdle ==
    /\ pc = "idle" /\ item_rows = <<>> /\ posted_rows = <<>> /\ i = 0
    /\ parsing = EmptyMap /\ base_products = None /\ posted_products = None
    /\ todo = {} /\ looked = {} /\ products = EmptyMap /\ result = None
BuilderIdle ==
    builder = None /\ set5 = {} /\ consumed = None /\ outcome = None /\ seed = None
UpcIdle == upc_runs = <<>> /\ upc_out = None
PriceIdle == price_in = <<>> /\ price_out = None

\* ------------------------------------------------------ from_db_export

\* The value of i that the errors of a row carry: the row is parsed after i += 1.
RowNumber_Mutant(n) == n
RowNumber(n) == n + 1

\* from_db_export returns early with an error.
Fail(e) ==
    /\ result' = Some(Err(e))
    /\ pc' = "done"

\* ReaderBuilder::from_path(item_path)?
OpenItem ==
    /\ UNCHANGED <<builderVars, upcVars, priceVars>>
    /\ pc = "open_item"
    /\ \E opened \in BOOLEAN :
         IF opened THEN pc' = "item" /\ result' = result ELSE Fail(CsvError)
    /\ UNCHANGED <<item_rows, posted_rows, i, parsing, base_products, posted_products,
                   todo, looked, products>>

\* One turn of the loop of parse_item_data: the reader yields a record.
ItemRow ==
    /\ UNCHANGED <<builderVars, upcVars, priceVars>>
    /\ pc = "item"
    /\ i < MaxRows
    /\ \E row \in ItemRows :
         LET rec == ReadRecord(item_rows, row)
             parsed == ParseItemRow(row, RowNumber(i))
         IN  /\ item_rows' = Append(item_rows, row)
             /\ i' = i + 1
             /\ IF ~rec.ok THEN Fail(Unwrap(rec.err)) /\ parsing' = parsing
                ELSE IF ~parsed.ok THEN Fail(Unwrap(parsed.err)) /\ parsing' = parsing
                ELSE /\ parsing' = Insert(parsing, Unwrap(parsed.val).sku, Unwrap(parsed.val))
                     /\ UNCHANGED <<pc, result>>
    /\ UNCHANGED <<posted_rows, base_products, posted_products, todo, looked, products>>

\* The reader of item.data is exhausted: parse_item_data returns Ok(products).
ItemEnd ==
    /\ UNCHANGED <<builderVars, upcVars, priceVars>>
    /\ pc = "item"
    /\ base_products' = Some(parsing)
    /\ pc' = "open_posted"
    /\ UNCHANGED <<item_rows, posted_rows, i, parsing, posted_products, todo, looked,
                   products, result>>

\* ReaderBuilder::from_path(item_posted_path)?, then products = HashMap::new(), i = 0.
OpenPosted ==
    /\ UNCHANGED <<builderVars, upcVars, priceVars>>
    /\ pc = "open_posted"
    /\ \E opened \in BOOLEAN :
         IF opened
         THEN pc' = "posted" /\ result' = result /\ parsing' = EmptyMap /\ i' = 0
         ELSE Fail(CsvError) /\ UNCHANGED <<parsing, i>>
    /\ UNCHANGED <<item_rows, posted_rows, base_products, posted_products, todo, looked,
                   products>>

\* One turn of the loop of parse_item_posted_data.
PostedRow ==
    /\ UNCHANGED <<builderVars, upcVars, priceVars>>
    /\ pc = "posted"
    /\ i < MaxRows
    /\ \E row \in PostedRows :
         LET rec == ReadRecord(posted_rows, row)
             parsed == ParsePostedRow(row, RowNumber(i))
         IN  /\ posted_rows' = Append(posted_rows, row)
             /\ i' = i + 1
             /\ IF ~rec.ok THEN Fail(Unwrap(rec.err)) /\ parsing' = parsing
                ELSE IF ~parsed.ok THEN Fail(Unwrap(parsed.err)) /\ parsing' = parsing
                ELSE /\ parsing' = Insert(parsing, Unwrap(parsed.val).sku, Unwrap(parsed.val))
                     /\ UNCHANGED <<pc, result>>
    /\ UNCHANGED <<item_rows, base_products, posted_products, todo, looked, products>>

\* The reader of item_posted.data is exhausted: parse_item_posted_data returns.
PostedEnd ==
    /\ UNCHANGED <<builderVars, upcVars, priceVars>>
    /\ pc = "posted"
    /\ posted_products' = Some(parsing)
    /\ pc' = "count"
    /\ UNCHANGED <<item_rows, posted_rows, i, parsing, base_products, todo, looked,
                   products, result>>

\* base_products.len() != posted_products.len()
LenDiffers_Mutant(base, posted) == Cardinality(DOMAIN base) < Cardinality(DOMAIN posted)
LenDiffers(base, posted) == Cardinality(DOMAIN base) # Cardinality(DOMAIN posted)

\* The error of the length check.
LenError ==
    Custom("The item_posted.data and item.data files have a different nember of items",
           None, None)

\* The length check of from_db_export, then products = AbcProductsBySku::new().
CountCheck ==
    /\ UNCHANGED <<builderVars, upcVars, priceVars>>
    /\ pc = "count"
    /\ IF LenDiffers(Unwrap(base_products), Unwrap(posted_products))
       THEN Fail(LenError) /\ UNCHANGED <<todo, products>>
       ELSE /\ pc' = "merge"
            /\ todo' = DOMAIN Unwrap(base_products)
            /\ products' = EmptyMap
            /\ result' = result
    /\ UNCHANGED <<item_rows, posted_rows, i, parsing, base_products, posted_products,
                   looked>>

\* HashMap::get
MapGet_Mutant(map, key) ==
    IF key \in DOMAIN map THEN Some(map[CHOOSE k \in DOMAIN map : k # key \/ DOMAIN map = {key}])
    ELSE None
MapGet(map, key) == IF key \in DOMAIN map THEN Some(map[key]) ELSE None

\* The error of a base sku without a posted product.
NoPostedError_Mutant(sku) ==
    Custom("item_posted.data file has no product with sku '{}'", None, None)
NoPostedError(sku) ==
    Custom("item_posted.data file has no product with sku '{}'", None, Some(sku))

\* TryFrom<(&IntermediateBaseProduct, &IntermediatePostedProduct)> for AbcProduct
TryFrom_Mutant(inter, posted) ==
    IF inter.sku # posted.sku THEN Err(MisMatchedSkus)
    ELSE Ok([sku |-> inter.sku, desc |-> inter.desc, alt_skus |-> inter.alt_skus,
             upcs |-> inter.upcs, cost |-> inter.list, list |-> inter.list,
             group |-> inter.group, weight |-> inter.weight, stock |-> posted.stock,
             last_sold |-> posted.last_sold])
TryFrom(inter, posted) ==
    IF inter.sku # posted.sku THEN Err(MisMatchedSkus)
    ELSE Ok([sku |-> inter.sku,
             desc |-> inter.desc,
             alt_skus |-> inter.alt_skus,
             upcs |-> inter.upcs,
             cost |-> inter.cost,
             list |-> inter.list,
             group |-> inter.group,
             weight |-> inter.weight,
             stock |-> posted.stock,
             last_sold |-> posted.last_sold])

\* One turn of the for loop of from_db_export; a HashMap yields its keys in any order.
MergeStep ==
    /\ UNCHANGED <<builderVars, upcVars, priceVars>>
    /\ pc = "merge"
    /\ \E sku \in todo :
         LET posted_product == MapGet(Unwrap(posted_products), sku)
             product == TryFrom(Unwrap(base_products)[sku], Unwrap(posted_product))
         IN  /\ looked' = looked \cup {sku}
             /\ todo' = todo \ {sku}
             /\ IF ~IsSome(posted_product)
                THEN Fail(NoPostedError(sku)) /\ products' = products
                ELSE IF ~product.ok
                THEN Fail(Unwrap(product.err)) /\ products' = products
                ELSE /\ products' = Insert(products, sku, Unwrap(product.val))
                     /\ UNCHANGED <<pc, result>>
    /\ UNCHANGED <<item_rows, posted_rows, i, parsing, base_products, posted_products>>

\* The for loop is over: Ok(products).
MergeEnd ==
    /\ UNCHANGED <<builderVars, upcVars, priceVars>>
    /\ pc = "merge"
    /\ todo = {}
    /\ result' = Some(Ok(products))
    /\ pc' = "done"
    /\ UNCHANGED <<item_rows, posted_rows, i, parsing, base_products, posted_products,
                   todo, looked, products>>

Init ==
    /\ pc = "open_item" /\ item_rows = <<>> /\ posted_rows = <<>> /\ i = 0
    /\ parsing = EmptyMap /\ base_products = None /\ posted_products = None
    /\ todo = {} /\ looked = {} /\ products = EmptyMap /\ result = None
    /\ BuilderIdle /\ UpcIdle /\ PriceIdle

Next ==
    \/ OpenItem
    \/ ItemRow
    \/ ItemEnd
    \/ OpenPosted
    \/ PostedRow
    \/ PostedEnd
    \/ CountCheck
    \/ MergeStep
    \/ MergeEnd

Spec == Init /\ [][Next]_vars

\* ------------------------------------------------------ AbcProductBuilder

\* AbcProductBuilder::new
new == [sku |-> None, desc |-> None, upcs |-> <<>>, list |-> None, cost |-> None,
        stock |-> None, weight |-> None, group |-> None, last_sold |-> None,
        alt_skus |-> <<>>]

with_sku(self, sku) == [self EXCEPT !.sku = Some(sku)]
with_desc(self, desc) == [self EXCEPT !.desc = Some(desc)]
with_upcs(self, upcs) == [self EXCEPT !.upcs = upcs]
add_upc(self, upc) == [self EXCEPT !.upcs = Append(self.upcs, upc)]
with_list(self, list) == [self EXCEPT !.list = Some(list)]
with_cost(self, cost) == [self EXCEPT !.cost = Some(cost)]
with_stock(self, stock) == [self EXCEPT !.stock = Some(stock)]
with_weight(self, weight) == [self EXCEPT !.weight = Some(weight)]
with_last_sold(self, last_sold) == [self EXCEPT !.last_sold = Some(last_sold)]
with_alt_skus(self, alt_skus) == [self EXCEPT !.alt_skus = alt_skus]
add_alt_sku(self, alt) == [self EXCEPT !.alt_skus = Append(self.alt_skus, alt)]

\* char::to_string().to_uppercase() of an ASCII letter
ToUppercase(c) == IF c >= Ch.a /\ c <= Ch.z THEN <<c - 32>> ELSE <<c>>

with_group_Mutant(self, group) ==
    IF group < Ch.A \/ group > Ch.Z THEN None
    ELSE Some([self EXCEPT !.group = Some(ToUppercase(group))])
with_group(self, group) ==
    IF (group < Ch.A \/ group > Ch.Z) /\ (group < Ch.a \/ group > Ch.z) THEN None
    ELSE Some([self EXCEPT !.group = Some(ToUppercase(group))])

\* The AbcProduct of a builder whose required fields are all there.
ProductOf(self) ==
    [sku |-> Unwrap(self.sku), desc |-> Unwrap(self.desc), upcs |-> self.upcs,
     list |-> Unwrap(self.list), cost |-> Unwrap(self.cost),
     stock |-> Unwrap(self.stock), weight |-> self.weight, group |-> self.group,
     last_sold |-> self.last_sold, alt_skus |-> self.alt_skus]

\* AbcProductBuilder::build: the fields of the struct literal are evaluated in order.
build_Mutant(self) ==
    IF ~IsSome(self.desc) THEN Err(MissingField("desc", 0))
    ELSE IF ~IsSome(self.sku) THEN Err(MissingField("sku", 0))
    ELSE IF ~IsSome(self.list) THEN Err(MissingField("list", 0))
    ELSE IF ~IsSome(self.cost) THEN Err(MissingField("cost", 0))
    ELSE IF ~IsSome(self.stock) THEN Err(MissingField("stock", 0))
    ELSE Ok(ProductOf(self))
build(self) ==
    IF ~IsSome(self.sku) THEN Err(MissingField("sku", 0))
    ELSE IF ~IsSome(self.desc) THEN Err(MissingField("desc", 0))
    ELSE IF ~IsSome(self.list) THEN Err(MissingField("list", 0))
    ELSE IF ~IsSome(self.cost) THEN Err(MissingField("cost", 0))
    ELSE IF ~IsSome(self.stock) THEN Err(MissingField("stock", 0))
    ELSE Ok(ProductOf(self))

\* impl From<AbcProduct> for AbcProductBuilder
From_Mutant(value) ==
    [sku |-> Some(value.sku), desc |-> Some(value.desc), upcs |-> value.upcs,
     list |-> Some(value.list), cost |-> Some(value.cost), stock |-> Some(value.stock),
     weight |-> value.weight, group |-> value.group, last_sold |-> None,
     alt_skus |-> value.alt_skus]
From(value) ==
    [sku |-> Some(value.sku), desc |-> Some(value.desc), upcs |-> value.upcs,
     list |-> Some(value.list), cost |-> Some(value.cost), stock |-> Some(value.stock),
     weight |-> value.weight, group |-> value.group, last_sold |-> value.last_sold,
     alt_skus |-> value.alt_skus]

\* The values the setters are called with.
SkuVals == {Sku1, Sku2}
DescVals == {ItemA.desc}
ListVals == {[m |-> 199, scale |-> 2], [m |-> 599, scale |-> 2]}
CostVals == {[m |-> 99, scale |-> 2]}
StockVals == {F64("num", FALSE, 1, 0), F64("num", TRUE, 6, 0)}
WeightVals == {F64("num", FALSE, 15, -1)}
DateVals == {[y |-> 2024, m |-> 11, d |-> 16]}
AltVals == {ItemA.alts[1], ItemB.alts[2]}
UpcVals == {Unwrap(Ean13FromStrNonstrict(ItemA.upcs).val)}
\* The characters around the two letter ranges, and a digit.
SampleChars == {Ch.A - 1, Ch.A, Ch.Z, Ch.Z + 1, Ch.a - 1, Ch.a, Ch.z, Ch.z + 1, Ch.zero}
AllChars == 0..MaxChar
VecsOf(S) == UNION {[1..k -> S] : k \in 0..MaxVec}

RequiredFields == <<"sku", "desc", "list", "cost", "stock">>
OptionalFields == {"upcs", "weight", "group", "last_sold", "alt_skus"}
AllFields == {RequiredFields[k] : k \in 1..5} \cup OptionalFields

\* A setter returns the builder it was called on with one field given.
Setter(field, next) ==
    /\ builder' = Some(next)
    /\ set5' = set5 \cup {field}
    /\ seed' = None
    /\ UNCHANGED <<consumed, outcome, exportVars, upcVars, priceVars>>

WithSku == IsSome(builder) /\ \E v \in SkuVals : Setter("sku", with_sku(Unwrap(builder), v))
WithDesc == IsSome(builder) /\ \E v \in DescVals : Setter("desc", with_desc(Unwrap(builder), v))
WithList == IsSome(builder) /\ \E v \in ListVals : Setter("list", with_list(Unwrap(builder), v))
WithCost == IsSome(builder) /\ \E v \in CostVals : Setter("cost", with_cost(Unwrap(builder), v))
WithStock ==
    IsSome(builder) /\ \E v \in StockVals : Setter("stock", with_stock(Unwrap(builder), v))
WithWeight ==
    IsSome(builder) /\ \E v \in WeightVals : Setter("weight", with_weight(Unwrap(builder), v))
WithLastSold ==
    IsSome(builder)
    /\ \E v \in DateVals : Setter("last_sold", with_last_sold(Unwrap(builder), v))
WithUpcs ==
    IsSome(builder) /\ \E v \in VecsOf(UpcVals) : Setter("upcs", with_upcs(Unwrap(builder), v))
AddUpc ==
    /\ IsSome(builder) /\ Len(Unwrap(builder).upcs) < MaxVec
    /\ \E v \in UpcVals : Setter("upcs", add_upc(Unwrap(builder), v))
WithAltSkus ==
    IsSome(builder)
    /\ \E v \in VecsOf(AltVals) : Setter("alt_skus", with_alt_skus(Unwrap(builder), v))
AddAltSku ==
    /\ IsSome(builder) /\ Len(Unwrap(builder).alt_skus) < MaxVec
    /\ \E v \in AltVals : Setter("alt_skus", add_alt_sku(Unwrap(builder), v))

\* with_group(c): the builder is consumed, and comes back only for a letter.
WithGroupStep(c) ==
    /\ IsSome(builder)
    /\ builder' = with_group(Unwrap(builder), c)
    /\ set5' = IF IsSome(with_group(Unwrap(builder), c)) THEN set5 \cup {"group"} ELSE set5
    /\ seed' = None
    /\ UNCHANGED <<consumed, outcome, exportVars, upcVars, priceVars>>
WithGroup(chars) == \E c \in chars : WithGroupStep(c)

\* build() consumes the builder.
Build ==
    /\ IsSome(builder)
    /\ outcome' = Some(build(Unwrap(builder)))
    /\ consumed' = builder
    /\ builder' = None
    /\ UNCHANGED <<set5, seed, exportVars, upcVars, priceVars>>

\* AbcProductBuilder::from(product) of the product build() returned.
Reseed ==
    /\ IsSome(outcome) /\ Unwrap(outcome).ok
    /\ builder' = Some(From(Unwrap(Unwrap(outcome).val)))
    /\ seed' = Unwrap(outcome).val
    /\ set5' = AllFields
    /\ outcome' = None
    /\ consumed' = None
    /\ UNCHANGED <<exportVars, upcVars, priceVars>>

InitBuilder ==
    /\ ExportIdle /\ UpcIdle /\ PriceIdle
    /\ builder = Some(new) /\ set5 = {} /\ consumed = None /\ outcome = None /\ seed = None

NextBuilder ==
    \/ WithSku
    \/ WithDesc
    \/ WithList
    \/ WithCost
    \/ WithStock
    \/ WithWeight
    \/ WithLastSold
    \/ WithUpcs
    \/ AddUpc
    \/ WithAltSkus
    \/ AddAltSku
    \/ WithGroup(SampleChars)
    \/ Build
    \/ Reseed

SpecBuilder == InitBuilder /\ [][NextBuilder]_vars

\* Builders to call with_group on: new; with a sku; with a sku and a description; with
\* the required fields; with every field but the group.
FullBuilder ==
    with_stock(with_cost(with_list(with_desc(with_sku(new, Sku1), ItemA.desc),
        [m |-> 199, scale |-> 2]), [m |-> 99, scale |-> 2]), F64("num", FALSE, 1, 0))
RichBuilder ==
    add_alt_sku(add_upc(with_last_sold(with_weight(FullBuilder, F64("num", FALSE, 15, -1)),
        [y |-> 2024, m |-> 11, d |-> 16]),
        Unwrap(Ean13FromStrNonstrict(ItemA.upcs).val)), ItemA.alts[1])
GroupSeeds ==
    {new, with_sku(new, Sku1), with_desc(with_sku(new, Sku2), ItemA.desc), FullBuilder,
     RichBuilder}

InitGroup ==
    /\ ExportIdle /\ UpcIdle /\ PriceIdle
    /\ \E b \in GroupSeeds :
         /\ builder = Some(b)
         /\ set5 = {f \in AllFields : b[f] # <<>>}
    /\ consumed = None /\ outcome = None /\ seed = None

NextGroup == WithGroup(AllChars)

SpecGroup == InitGroup /\ [][NextGroup]_vars

\* ------------------------------------------------------ barcode fields

\* The digits a generated run is cut from, "858755000140376...".
RunBase == <<56, 53, 56, 55, 53, 53, 48, 48, 48, 49, 52, 48, 51, 55, 54, 50, 57>>
RunLens == {0} \cup (10..MaxRunLen)

\* A run: len digits of RunBase, the last raised by v, and whether a character that
\* is neither a digit nor a comma stands after its first digit.
Runs == [len : RunLens, v : {0, 1}, noise : BOOLEAN]

RunDigits(r) ==
    [k \in 1..r.len |->
       IF k = r.len THEN Ch.zero + ((RunBase[k] - Ch.zero + r.v) % 10) ELSE RunBase[k]]
RunText(r) ==
    LET d == RunDigits(r)
    IN  IF ~r.noise THEN d
        ELSE IF r.len = 0 THEN <<Ch.x>>
        ELSE <<d[1], Ch.space, Ch.x>> \o SubSeq(d, 2, Len(d))

\* The text of a barcode column: the runs joined by commas.
RECURSIVE UpcText(_)
UpcText(runs) ==
    IF runs = <<>> THEN <<>>
    ELSE IF Len(runs) = 1 THEN RunText(runs[1])
    ELSE RunText(runs[1]) \o <<Ch.comma>> \o UpcText(Tail(runs))

AddRun ==
    /\ upc_out = None
    /\ Len(upc_runs) < MaxRuns
    /\ \E r \in Runs : upc_runs' = Append(upc_runs, r)
    /\ UNCHANGED <<upc_out, exportVars, builderVars, priceVars>>

\* The barcode column of a row is parsed (lines 546-566 of parse_item_data).
ParseColumn ==
    /\ upc_out = None
    /\ upc_out' = Some(ParseUpcs(UpcText(upc_runs)))
    /\ UNCHANGED <<upc_runs, exportVars, builderVars, priceVars>>

InitUpc == ExportIdle /\ BuilderIdle /\ UpcIdle /\ PriceIdle

NextUpc ==
    \/ AddRun
    \/ ParseColumn

SpecUpc == InitUpc /\ [][NextUpc]_vars

\* ------------------------------------------------------ price_from_str alone

\* Characters of a generated price text beyond the sanitized prefix.
MaxPriceLen == 4

\* '0', '1', '5', '.', ',', '$', ' ', '-', 'x'
PriceChars == {Ch.zero, Ch.zero + 1, Ch.zero + 5, Ch.dot, Ch.comma, Ch.dollar, Ch.space,
               Ch.minus, Ch.x}
\* "", "1,234.50", "$ 8.12", "-1.5.0"
PriceSeeds == {<<>>,
               <<49, 44, 50, 51, 52, 46, 53, 48>>,
               <<36, 32, 56, 46, 49, 50>>,
               <<45, 49, 46, 53, 46, 48>>}

\* The text of a price grows by one character.
AddPriceChar ==
    /\ price_out = None
    /\ Len(price_in) < MaxPriceLen
    /\ \E c \in PriceChars : price_in' = Append(price_in, c)
    /\ UNCHANGED <<price_out, exportVars, builderVars, upcVars>>

\* price_from_str(price_in) is called.
CallPriceFromStr ==
    /\ price_out = None
    /\ price_out' = Some(price_from_str(price_in))
    /\ UNCHANGED <<price_in, exportVars, builderVars, upcVars>>

InitPrice ==
    /\ ExportIdle /\ BuilderIdle /\ UpcIdle
    /\ price_in \in PriceSeeds
    /\ price_out = None

NextPrice ==
    \/ AddPriceChar
    \/ CallPriceFromStr

SpecPrice == InitPrice /\ [][NextPrice]_vars

\* ====================================================== properties of from_db_export

\* The two maps from_db_export holds once both extractors have returned.
Base == Unwrap(base_products)
Posted == Unwrap(posted_products)
Extracted == IsSome(base_products) /\ IsSome(posted_products)
Returned == pc = "done" /\ IsSome(result)
TheError == Unwrap(Unwrap(result).err)
TheProducts == Unwrap(Unwrap(result).val)

\* Row k of a file hard-fails: the reader or the loop body returns an error for it.
ItemRowFails(k) ==
    \/ ~ReadRecord(SubSeq(item_rows, 1, k - 1), item_rows[k]).ok
    \/ ~ParseItemRow(item_rows[k], k).ok
PostedRowFails(k) ==
    \/ ~ReadRecord(SubSeq(posted_rows, 1, k - 1), posted_rows[k]).ok
    \/ ~ParsePostedRow(posted_rows[k], k).ok

\* from_db_export returned from inside parse_item_data / parse_item_posted_data, on a row.
FailedInItem == Returned /\ ~IsSome(base_products) /\ item_rows # <<>>
FailedInPosted == Returned /\ IsSome(base_products) /\ ~IsSome(posted_products)
                  /\ posted_rows # <<>>

\* C1: whenever the two maps have the same number of keys and every base key is a
\* posted key, from_db_export returns Ok with a map of exactly the base keys, and the
\* product under each key has that key, takes desc, upcs, list, cost, group, weight and
\* alt_skus from the base record of the key and stock and last_sold from the posted
\* record of the key.
C1_ReconciliationSuccess ==
    (/\ Returned /\ Extracted
     /\ Cardinality(DOMAIN Base) = Cardinality(DOMAIN Posted)
     /\ DOMAIN Base \subseteq DOMAIN Posted)
    => /\ Unwrap(result).ok
       /\ DOMAIN TheProducts = DOMAIN Base
       /\ Cardinality(DOMAIN TheProducts) = Cardinality(DOMAIN Base)
       /\ \A k \in DOMAIN TheProducts :
            LET prod == TheProducts[k]
            IN  /\ prod.sku = k
                /\ prod.desc = Base[k].desc
                /\ prod.upcs = Base[k].upcs
                /\ prod.list = Base[k].list
                /\ prod.cost = Base[k].cost
                /\ prod.group = Base[k].group
                /\ prod.weight = Base[k].weight
                /\ prod.alt_skus = Base[k].alt_skus
                /\ prod.stock = Posted[k].stock
                /\ prod.last_sold = Posted[k].last_sold

\* Two products were reconciled, one of them with a barcode and a last-sold date and
\* a list price that differs from its cost.
C1_Witness ==
    /\ Returned /\ Unwrap(result).ok
    /\ Cardinality(DOMAIN TheProducts) = 2
    /\ \E k \in DOMAIN TheProducts :
         /\ Len(TheProducts[k].upcs) = 1
         /\ IsSome(TheProducts[k].last_sold)
         /\ TheProducts[k].list # TheProducts[k].cost

\* The two maps differ in their number of keys.
CountsDiffer ==
    Returned /\ Extracted /\ Cardinality(DOMAIN Base) # Cardinality(DOMAIN Posted)

\* C2 as stated: with maps of different numbers of keys from_db_export fails with an
\* error of a kind RowCountMismatch of its own, before any key is looked up, and
\* returns no map.
C2_Original ==
    CountsDiffer
    => /\ ~Unwrap(result).ok
       /\ TheError.kind = "RowCountMismatch"
       /\ looked = {}
       /\ Unwrap(result).val = None

\* C2 amended: with maps of different numbers of keys from_db_export fails with an
\* error of the catch-all kind Custom whose message says that the two files have a
\* different number of items (AbcParseError has no kind of its own for it), before any
\* key is looked up, and returns no map.
C2_CountMismatch ==
    CountsDiffer
    => /\ ~Unwrap(result).ok
       /\ TheError.kind = "Custom"
       /\ TheError = LenError
       /\ TheError.row = None /\ TheError.sku = None
       /\ looked = {} /\ products = EmptyMap
       /\ Unwrap(result).val = None

\* The base file gave more keys than the posted file, and from_db_export has failed.
C2_Witness ==
    /\ CountsDiffer
    /\ Cardinality(DOMAIN Base) > Cardinality(DOMAIN Posted)
    /\ Cardinality(DOMAIN Posted) > 0
    /\ ~Unwrap(result).ok

\* The maps are of equal size and some base key has no posted record.
KeyUnmatched ==
    /\ Returned /\ Extracted
    /\ Cardinality(DOMAIN Base) = Cardinality(DOMAIN Posted)
    /\ DOMAIN Base \ DOMAIN Posted # {}

\* C3 as stated: with maps of equal size and a base key without a posted record,
\* from_db_export fails with an error of kind UnmatchedKey naming a base key that is
\* absent from the posted map, and returns no map.
C3_Original ==
    KeyUnmatched
    => /\ ~Unwrap(result).ok
       /\ TheError.kind = "UnmatchedKey"
       /\ IsSome(TheError.sku)
       /\ Unwrap(TheError.sku) \in DOMAIN Base \ DOMAIN Posted
       /\ Unwrap(result).val = None

\* C3 amended: with maps of equal size and a base key without a posted record,
\* from_db_export fails with an error of the catch-all kind Custom whose message names
\* a base key that is absent from the posted map (never a key of both maps), and
\* returns no map even if other keys matched.
C3_UnmatchedKey ==
    KeyUnmatched
    => /\ ~Unwrap(result).ok
       /\ TheError.kind = "Custom"
       /\ IsSome(TheError.sku)
       /\ Unwrap(TheError.sku) \in DOMAIN Base \ DOMAIN Posted
       /\ TheError = NoPostedError(Unwrap(TheError.sku))
       /\ Unwrap(result).val = None

\* A key was matched and merged before the loop met the key without a posted record.
C3_Witness ==
    /\ KeyUnmatched
    /\ ~Unwrap(result).ok
    /\ products # EmptyMap
    /\ DOMAIN Base \cap DOMAIN Posted # {}

\* C4: from_db_export reports the first hard failure in processing order and nothing
\* else. The rows of item.data are processed in file order, then those of
\* item_posted.data, then the maps are reconciled; the first row that hard-fails is the
\* last one read, no row of any file is read after it, a MissingField or Custom error
\* of a row carries the number of that row counted from 1, and a failure returns no map.
C4_FirstFailure ==
    /\ (posted_rows # <<>> \/ IsSome(posted_products)) => IsSome(base_products)
    /\ pc \in {"item", "posted"} => i = Len(IF pc = "item" THEN item_rows ELSE posted_rows)
    /\ pc \in {"item", "open_posted", "posted", "count", "merge"} =>
         \A k \in 1..Len(item_rows) : ~ItemRowFails(k)
    /\ pc \in {"posted", "count", "merge"} =>
         \A k \in 1..Len(posted_rows) : ~PostedRowFails(k)
    /\ Returned =>
         /\ ~Unwrap(result).ok => Unwrap(result).val = None
         /\ Unwrap(result).ok =>
              /\ \A k \in 1..Len(item_rows) : ~ItemRowFails(k)
              /\ \A k \in 1..Len(posted_rows) : ~PostedRowFails(k)
         /\ FailedInItem =>
              LET n == Len(item_rows)
              IN  /\ \A k \in 1..(n - 1) : ~ItemRowFails(k)
                  /\ ItemRowFails(n)
                  /\ posted_rows = <<>> /\ looked = {}
                  /\ ~Unwrap(result).ok
                  /\ TheError.kind \in {"CsvError", "MissingField", "Custom"}
                  /\ TheError.kind # "CsvError" =>
                       /\ TheError.row = Some(n)
                       /\ TheError = Unwrap(ParseItemRow(item_rows[n], n).err)
         /\ FailedInPosted =>
              LET n == Len(posted_rows)
              IN  /\ \A k \in 1..Len(item_rows) : ~ItemRowFails(k)
                  /\ \A k \in 1..(n - 1) : ~PostedRowFails(k)
                  /\ PostedRowFails(n)
                  /\ looked = {}
                  /\ ~Unwrap(result).ok
                  /\ TheError.kind \in {"CsvError", "MissingField", "Custom"}
                  /\ TheError.kind # "CsvError" =>
                       /\ TheError.row = Some(n)
                       /\ TheError = Unwrap(ParsePostedRow(posted_rows[n], n).err)

\* The second row of item_posted.data hard-failed after two good rows of item.data
\* and one good row of item_posted.data, and the error carries the row number 2.
C4_Witness ==
    /\ FailedInPosted
    /\ Len(item_rows) = 2 /\ Len(posted_rows) = 2
    /\ TheError.kind = "Custom" /\ TheError.row = Some(2)

\* The reader yielded row k of the file as a record.
ItemRowRead(k) == ReadRecord(SubSeq(item_rows, 1, k - 1), item_rows[k]).ok
PostedRowRead(k) == ReadRecord(SubSeq(posted_rows, 1, k - 1), posted_rows[k]).ok

\* from_db_export failed on row k of the file.
FailedOnItemRow(k) == FailedInItem /\ k = Len(item_rows)
FailedOnPostedRow(k) == FailedInPosted /\ k = Len(posted_rows)

\* The key, description, list and cost columns of a row are there, and its list and
\* cost parse as prices.
HardItemFieldsGood(row) ==
    /\ row.n > ItemCol.sku /\ row.n > ItemCol.desc
    /\ row.n > ItemCol.list /\ row.n > ItemCol.cost
    /\ price_from_str(row.f[ItemCol.list]).ok
    /\ price_from_str(row.f[ItemCol.cost]).ok
\* The key and stock columns of a row are there, and its stock parses.
HardPostedFieldsGood(row) ==
    /\ row.n > PostedCol.sku /\ row.n > PostedCol.stock
    /\ ParseF64(row.f[PostedCol.stock]).ok

\* A present list, cost or stock that does not parse is a hard error of its row.
UnparseableIsHard ==
    /\ \A k \in 1..Len(item_rows) :
         LET row == item_rows[k]
         IN  (/\ ItemRowRead(k)
              /\ \/ row.n > ItemCol.list /\ ~price_from_str(row.f[ItemCol.list]).ok
                 \/ row.n > ItemCol.cost /\ ~price_from_str(row.f[ItemCol.cost]).ok)
             => (pc = "done" /\ FailedOnItemRow(k))
    /\ \A k \in 1..Len(posted_rows) :
         LET row == posted_rows[k]
         IN  (PostedRowRead(k) /\ row.n > PostedCol.stock
              /\ ~ParseF64(row.f[PostedCol.stock]).ok)
             => (pc = "done" /\ FailedOnPostedRow(k))

\* A posted row with good hard fields is extracted, its last-sold date absent exactly
\* when the text does not parse.
PostedSoftFields ==
    \A k \in 1..Len(posted_rows) :
      LET row == posted_rows[k]
      IN  (PostedRowRead(k) /\ HardPostedFieldsGood(row))
          => /\ ~FailedOnPostedRow(k)
             /\ (pc = "posted" /\ k = Len(posted_rows)) =>
                  /\ row.f[PostedCol.sku] \in DOMAIN parsing
                  /\ IsSome(parsing[row.f[PostedCol.sku]].last_sold)
                       = ParseDate(row.f[PostedCol.last_sold]).ok

KeysOf(rows) == {rows[k].f[0] : k \in 1..Len(rows)}
LastRowOf(rows, key) ==
    CHOOSE k \in 1..Len(rows) :
      rows[k].f[0] = key /\ \A j \in (k + 1)..Len(rows) : rows[j].f[0] # key

\* A map holds one entry per key of the rows, that of the last row with the key.
ItemMapOf(map) ==
    /\ DOMAIN map = KeysOf(item_rows)
    /\ Cardinality(DOMAIN map) = Cardinality(KeysOf(item_rows))
    /\ \A key \in DOMAIN map :
         LET k == LastRowOf(item_rows, key)
             row == item_rows[k]
         IN  /\ map[key] = Unwrap(ParseItemRow(row, k).val)
             /\ map[key].sku = key
             /\ map[key].desc = row.f[ItemCol.desc]
             /\ map[key].list = Unwrap(price_from_str(row.f[ItemCol.list]).val)
             /\ map[key].cost = Unwrap(price_from_str(row.f[ItemCol.cost]).val)
PostedMapOf(map) ==
    /\ DOMAIN map = KeysOf(posted_rows)
    /\ Cardinality(DOMAIN map) = Cardinality(KeysOf(posted_rows))
    /\ \A key \in DOMAIN map :
         LET k == LastRowOf(posted_rows, key)
             row == posted_rows[k]
         IN  /\ map[key] = Unwrap(ParsePostedRow(row, k).val)
             /\ map[key].sku = key
             /\ map[key].stock = Unwrap(ParseF64(row.f[PostedCol.stock]).val)

\* C6: after an extractor has processed any sequence of valid rows, its map has
\* exactly one entry per distinct key of the rows, holding the fields of the last row
\* with that key; a row repeating a key is never an error; the maps from_db_export
\* compares have as many entries as their files have distinct keys.
C6_LastRowWins ==
    /\ pc = "item" => ItemMapOf(parsing)
    /\ pc = "posted" => PostedMapOf(parsing)
    /\ IsSome(base_products) => ItemMapOf(Base)
    /\ IsSome(posted_products) => PostedMapOf(Posted)
    /\ FailedInItem => ItemRowFails(Len(item_rows))
    /\ FailedInPosted => PostedRowFails(Len(posted_rows))

\* Two rows of item.data with one key and different fields were read, the map holds
\* one entry, with the description of the second.
C6_Witness ==
    /\ pc = "item" /\ Len(item_rows) = 2
    /\ item_rows[1].f[0] = item_rows[2].f[0]
    /\ item_rows[1].f[ItemCol.desc] # item_rows[2].f[ItemCol.desc]
    /\ Cardinality(DOMAIN parsing) = 1
    /\ parsing[item_rows[2].f[0]].desc = item_rows[2].f[ItemCol.desc]

\* ====================================================== properties of the builder

AllRequiredSet == \A k \in 1..5 : RequiredFields[k] \in set5
FirstUnset ==
    RequiredFields[CHOOSE k \in 1..5 :
        RequiredFields[k] \notin set5 /\ \A j \in 1..(k - 1) : RequiredFields[j] \in set5]

C8_RoundTrip ==
    (IsSome(seed) /\ IsSome(outcome)) =>
      /\ Unwrap(outcome).ok
      /\ LET p == Unwrap(seed)
             q == Unwrap(Unwrap(outcome).val)
         IN  /\ q.sku = p.sku /\ q.desc = p.desc /\ q.upcs = p.upcs
             /\ q.list = p.list /\ q.cost = p.cost /\ q.stock = p.stock
             /\ q.group = p.group /\ q.weight = p.weight
             /\ q.last_sold = p.last_sold /\ q.alt_skus = p.alt_skus
             /\ q = p

\* A product with a group, a weight, a last-sold date, a barcode and two different
\* alternate skus was rebuilt from the builder made from it.
C8_Witness ==
    /\ IsSome(seed) /\ IsSome(outcome)
    /\ LET p == Unwrap(seed)
       IN  /\ IsSome(p.group) /\ IsSome(p.weight) /\ IsSome(p.last_sold)
           /\ Len(p.upcs) = 1
           /\ Len(p.alt_skus) = 2 /\ p.alt_skus[1] # p.alt_skus[2]

IsLetter(c) == (c >= Ch.A /\ c <= Ch.Z) \/ (c >= Ch.a /\ c <= Ch.z)
UpperOf(c) == IF c >= Ch.a THEN c - (Ch.a - Ch.A) ELSE c

WithCheckDigit(d12) == d12 \o <<Ch.zero + CheckDigit(d12)>>

\* What a run of digits is to contribute to the upcs of its row.
RunCodes(d) ==
    IF Len(d) < 11 THEN <<>>
    ELSE IF Len(d) = 11 THEN <<WithCheckDigit(<<Ch.zero>> \o d)>>
    ELSE IF Len(d) = 12 THEN <<WithCheckDigit(<<Ch.zero>> \o SubSeq(d, 1, 11))>>
    ELSE IF Len(d) = 13 THEN <<WithCheckDigit(SubSeq(d, 1, 12))>>
    ELSE <<>>
RECURSIVE CodesOf(_)
CodesOf(runs) ==
    IF runs = <<>> THEN <<>> ELSE RunCodes(RunDigits(Head(runs))) \o CodesOf(Tail(runs))

\* C10: of the barcode column of a base row, stripped of every character that is not
\* a digit or a comma and split on commas, a run of fewer than 11 digits contributes
\* nothing, a run of 11 digits contributes the 13-digit code of the run with a
\* recomputed check digit, a run of 12 or 13 digits contributes its code with the
\* check digit corrected, a run the collaborator cannot parse is dropped, and the
\* codes keep the order of their runs.
C10_BarcodeRuns ==
    IsSome(upc_out) =>
      /\ Unwrap(upc_out) = CodesOf(upc_runs)
      /\ \A k \in 1..Len(Unwrap(upc_out)) : ValidEan13(Unwrap(upc_out)[k])
      /\ Len(Unwrap(upc_out)) =
           Cardinality({k \in 1..Len(upc_runs) : upc_runs[k].len \in {11, 12, 13}})

\* A column of an 11-digit run with a stray character in it, then a 12-digit run
\* whose check digit is wrong, was parsed into two codes in that order.
C10_Witness ==
    /\ IsSome(upc_out) /\ Len(upc_runs) = 2
    /\ upc_runs[1].len = 11 /\ upc_runs[1].noise
    /\ upc_runs[2].len = 12
    /\ RunDigits(upc_runs[2])[12] # Ch.zero + CheckDigit(<<Ch.zero>> \o SubSeq(RunDigits(upc_runs[2]), 1, 11))
    /\ Len(Unwrap(upc_out)) = 2
    /\ SubSeq(Unwrap(upc_out)[1], 2, 12) = RunDigits(upc_runs[1])
    /\ SubSeq(Unwrap(upc_out)[2], 2, 12) = SubSeq(RunDigits(upc_runs[2]), 1, 11)

\* ====================================================== properties of price_from_str

\* The characters of s that are decimal digits or the decimal point, in order.
RECURSIVE DigitsAndPoints(_)
DigitsAndPoints(s) ==
    IF s = <<>> THEN <<>>
    ELSE IF Head(s) \in (Ch.zero..Ch.nine) \cup {Ch.dot}
    THEN <<Head(s)>> \o DigitsAndPoints(Tail(s))
    ELSE DigitsAndPoints(Tail(s))

RECURSIVE Pow10(_)
Pow10(n) == IF n = 0 THEN 1 ELSE 10 * Pow10(n - 1)

\* r is a decimal literal: at least one digit, at most one decimal point, nothing else.
IsDecimalLiteral(r) ==
    /\ \E k \in 1..Len(r) : IsDigit(r[k])
    /\ Count(r, Ch.dot) <= 1

\* The Decimal d is exactly the number the decimal literal r writes: with w digits
\* before the point and f after it, d.m / 10^d.scale = (digits of r) / 10^f.
IsValueOf(d, r) ==
    LET p == FirstIndex(r, {Ch.dot})
        f == IF p = 0 THEN 0 ELSE Len(r) - p
        whole == IF p = 0 THEN r ELSE SubSeq(r, 1, p - 1)
        frac == IF p = 0 THEN <<>> ELSE SubSeq(r, p + 1, Len(r))
    IN  d.m * Pow10(f) = (DigitsVal(whole) * Pow10(f) + DigitsVal(frac)) * Pow10(d.scale)

\* C11 as stated: price_from_str keeps the digits and decimal points of its input and
\* returns the exact decimal value of what is kept, failing exactly when nothing is
\* kept or more than one decimal point is.
C11_Original ==
    IsSome(price_out) =>
        LET r == DigitsAndPoints(price_in)
            res == Unwrap(price_out)
        IN  /\ res.ok <=> ~(r = <<>> \/ Count(r, Ch.dot) > 1)
            /\ res.ok => IsValueOf(Unwrap(res.val), r)

\* C11: price_from_str keeps the digits and decimal points of its input (commas,
\* currency symbols, blanks, letters and signs are dropped), returns the exact decimal
\* value of what is kept when that holds a digit and at most one decimal point, and
\* fails otherwise: when nothing is kept, when a lone decimal point is, or when more
\* than one decimal point is.
C11_PriceSanitization ==
    IsSome(price_out) =>
        LET r == DigitsAndPoints(price_in)
            res == Unwrap(price_out)
        IN  /\ res.ok <=> IsDecimalLiteral(r)
            /\ res.ok => IsValueOf(Unwrap(res.val), r)
            /\ (r = <<>> \/ Count(r, Ch.dot) > 1 \/ r = <<Ch.dot>>) => ~res.ok

\* "1,234.50" has been parsed, to 1234.50.
C11_Witness ==
    /\ price_in = <<49, 44, 50, 51, 52, 46, 53, 48>>
    /\ IsSome(price_out)
    /\ Unwrap(price_out).ok
    /\ Unwrap(Unwrap(price_out).val).m * 100 = 123450 * Pow10(Unwrap(Unwrap(price_out).val).scale)

\* ====================================================== properties of the group

\* A group a Product may have: none, or one letter from A to Z.
IsGroup(g) == g = None \/ (Len(Unwrap(g)) = 1 /\ Unwrap(g)[1] \in Ch.A..Ch.Z)

\* C12: every Product that comes into existence, returned by build() after any setters
\* or held by the map from_db_export returns, has no group or a group of exactly one
\* uppercase letter A-Z.
C12_GroupInvariant ==
    /\ (IsSome(outcome) /\ Unwrap(outcome).ok) => IsGroup(Unwrap(Unwrap(outcome).val).group)
    /\ (Returned /\ Unwrap(result).ok) =>
           \A k \in DOMAIN TheProducts : IsGroup(TheProducts[k].group)

\* ====================================================== properties of the key guard

\* Every record of the map is stored under its own sku.
KeyedBySku(map) == \A k \in DOMAIN map : map[k].sku = k

\* C13: in the map of either extractor, while it is filled and once it is returned,
\* every record carries the key it is stored under, so the guard of TryFrom never
\* fires: from_db_export never returns MisMatchedSkus.
C13_GuardNeverFires ==
    /\ KeyedBySku(parsing)
    /\ IsSome(base_products) => KeyedBySku(Base)
    /\ IsSome(posted_products) => KeyedBySku(Posted)
    /\ KeyedBySku(products)
    /\ (Returned /\ ~Unwrap(result).ok) => TheError.kind # "MisMatchedSkus"

\* The loop of from_db_export has paired the records of one key and passed the guard,
\* and another key is still to be paired.
C13_Witness ==
    /\ pc = "merge"
    /\ Cardinality(DOMAIN products) = 1
    /\ todo # {}
    /\ Cardinality(DOMAIN Base) = 2
    /\ DOMAIN Base = DOMAIN Posted
====
